---------------------------- MODULE Spec2Model ----------------------------
(***************************************************************************)
(* Model of the orchestration core of multi_agent_harness:                 *)
(*   conversation/transcript.py          ConversationTranscript            *)
(*   conversation/participant.py         Participant                       *)
(*   conversation/turn_runner.py         TurnRunner.run_turn               *)
(*   conversation/conversation_runner.py ConversationRunner                *)
(* The provider adapter, the tool executor and the stop condition are      *)
(* external callables: the adapter's answer and the raising of either      *)
(* callable are nondeterministic choices over small sets.  The program is  *)
(* single-threaded; an action runs the code from one external call         *)
(* (adapter.send_chat, tool_executor) to the next.                         *)
(***************************************************************************)
EXTENDS Integers, Sequences, FiniteSets, TLC

(***************************************************************************)
(* Bounds of the model.                                                    *)
(***************************************************************************)
\* calls of run / run_turn made on one runner
MaxOps == 1
\* with an adapter that may answer anything, no turn is started once the
\* transcript holds this many turns
MaxLen == 2
\* the same, with an adapter whose answers are fixed
LongLen == 6
\* max_turns is None or 0..MaxTurnsArg
MaxTurnsArg == 2
\* max_tool_steps of a direct run_turn call is 0..MaxStepsArg
MaxStepsArg == 2
\* an adapter that may answer anything asks for no further tool once the
\* transcript and the turn in progress hold this many tool calls
MaxToolCalls == 3

(***************************************************************************)
(* Program constants.                                                      *)
(***************************************************************************)
\* conversation_runner.py:127  max_tool_steps=6
RUN_MAX_TOOL_STEPS == 6
\* conversation_runner.py:40  len(participants) < 2
MIN_PARTICIPANTS == 2
\* test_unlimited_turns_with_stop_condition: the sixth answer is "DONE"
DONE_AT == 6

\* Python's None
None == "None"
\* max_turns=None
NoMaxTurns == 0 - 1

(***************************************************************************)
(* adapters/base.py: the chat contract.                                    *)
(***************************************************************************)
\* ChatMessage.content: str
TextContent(s) == [kind |-> "str", text |-> s]
\* ChatMessage.content: {"tool_calls": [...]}
ToolCallsContent(payload) == [kind |-> "tool_calls", tool_calls |-> payload]
\* ChatMessage.content: {"tool_call_id": ..., "content": ...}
ToolResultContent(id, c) == [kind |-> "tool_result", tool_call_id |-> id, content |-> c]
\* ChatMessage.content: any other dict an adapter may answer with
DictContent(s) == [kind |-> "dict", text |-> s]

ChatMessage(r, c) == [role |-> r, content |-> c]

ToolCall(n, a, id) == [name |-> n, arguments |-> a, call_id |-> id]

ChatResponse(m, tc, rw) == [message |-> m, tool_calls |-> tc, raw |-> rw]

(***************************************************************************)
(* conversation/transcript.py                                              *)
(***************************************************************************)
ToolInvocationRecord(n, a) == [tool_name |-> n, arguments |-> a, result |-> None, error |-> None]

ConversationTurn(r, m, inv) == [role |-> r, message |-> m, tool_invocations |-> inv]

\* a transcript that inserts the new turn in front
add_turn_in_front(turns, turn) == <<turn>> \o turns

\* ConversationTranscript.add_turn: self.turns.append(turn)
add_turn(turns, turn) == Append(turns, turn)

(***************************************************************************)
(* conversation/participant.py                                             *)
(***************************************************************************)
Participant(n, prompts) == [name |-> n, _system_prompts |-> prompts]

\* Participant.system_prompts: one system message per prompt, in order
system_prompts(p) ==
    [i \in 1..Len(p._system_prompts) |->
        ChatMessage("system", TextContent(p._system_prompts[i]))]

(***************************************************************************)
(* The inputs: participants, tool calls, adapter responses, transcripts.   *)
(***************************************************************************)
Alice == Participant("Alice", <<"You are Alice">>)
Bob == Participant("Bob", <<>>)
Carol == Participant("Carol", <<"You are Carol", "Be brief">>)

\* a second participant that is also called Alice
OtherAlice == Participant("Alice", <<"You are the other Alice">>)

AllParticipants == {Alice, Bob, Carol}

\* starting_participant=None
NoParticipant == Participant(None, <<>>)

ParticipantLists ==
    {<<>>, <<Alice>>, <<Alice, Bob>>, <<Alice, Bob, Carol>>, <<Alice, OtherAlice>>}

ToolLists == {<<>>, <<"get_weather">>}

Executors == {None, "executor"}

callA == ToolCall("get_weather", "Paris", "call_1")
callB == ToolCall("get_time", "UTC", "call_2")
callNoId == ToolCall("get_weather", "Rome", None)

ToolCallSeqs == {<<callA, callB>>, <<callA, callNoId>>}

\* the adapter behind the participants: one that may answer anything (or
\* raise), one that always returns one tool call, one that answers
\* "DONE" once it is sent DONE_AT messages besides the system prompts, and
\* one that fails once, in the second turn of the first run made with it
Adapters == {"any", "always_tool", "done_sixth", "fails_once"}

\* what an adapter may answer
FinalResponses ==
    {ChatResponse(ChatMessage("assistant", c), <<>>, "raw") :
        c \in {DictContent("hi"), TextContent("DONE")}}

ToolResponses ==
    {ChatResponse(ChatMessage("assistant", TextContent("")), tc, "raw") :
        tc \in ToolCallSeqs}

StartingMessages == {"Start"}

\* transcripts a caller may have built before the run
SuppliedTranscripts ==
    {<<>>, <<ConversationTurn("Alice", "DONE", <<>>)>>}

\* initial_transcript=None
NoTranscript == [given |-> FALSE, turns |-> <<>>]
\* initial_transcript=t, a ConversationTranscript whose turns are t
GivenTranscript(t) == [given |-> TRUE, turns |-> t]

StopConditions == {None, "any_DONE"}

\* histories a caller of run_turn may pass
SuppliedHistories ==
    {<<>>, <<ChatMessage("user", TextContent("q")), ChatMessage("assistant", TextContent("a"))>>}

\* what the caller constructs: a ConversationRunner, or a TurnRunner of its own
Builds == {"ConversationRunner", "TurnRunner"}

VARIABLES
    \* the object constructed
    built,
    \* ConversationRunner.__init__, TurnRunner.__init__
    participants, tools, tool_executor, adapter,
    \* where the program is: "idle", "ctor_raised", "loop", "send", "resend",
    \* "exec", "returned", "raised", "turn_returned", "analyze_send",
    \* "analyze_returned"
    pc,
    \* "run" (ConversationRunner.run), "turn" (TurnRunner.run_turn called
    \* directly) or "analyze" (TranscriptAnalyzer.analyze)
    mode,
    \* the exception that left the last call, None if none
    exc,
    \* ConversationRunner.run
    transcript, starting_participant, max_turns, stop_condition,
    current_participant_idx, current_message, turn_count, result,
    \* TurnRunner.run_turn
    runner, messages, response, executed_calls, steps, max_tool_steps, call_idx,
    \* the history and user_message arguments of run_turn
    arg_history, arg_user_message,
    \* the message list of the adapter call that was answered last
    sent_messages,
    \* observations: calls made so far
    ops, init_turns, adapter_calls, tool_execs,
    \* the calls the tool executor was given in this turn, in order
    exec_log,
    \* the evaluations of the stop condition in this run
    stop_evals,
    \* the turns this run has started
    turns_started,
    \* the caller holds a reference to the transcript object of the run
    caller_has_transcript,
    \* the turns of the transcript a run that raised left behind, when the
    \* run in progress was given that transcript; -1 otherwise
    resumed,
    \* the caller's notes when it splits a run in two and repeats it in one
    split

vars ==
    <<built, participants, tools, tool_executor, adapter, pc, mode, exc, transcript,
      starting_participant, max_turns, stop_condition, current_participant_idx, current_message, turn_count, result,
      runner, messages, response, executed_calls, steps, max_tool_steps, call_idx,
      arg_history, arg_user_message, sent_messages,
      ops, init_turns, adapter_calls, tool_execs, exec_log, stop_evals, turns_started, caller_has_transcript, resumed, split>>

\* what only the start and the end of a run change
caller_view == <<caller_has_transcript, resumed, split>>

config == <<built, participants, tools, tool_executor, adapter>>

run_locals ==
    <<starting_participant, max_turns, stop_condition, current_participant_idx, current_message, turn_count>>

turn_locals ==
    <<runner, messages, response, executed_calls, steps, max_tool_steps, call_idx,
      arg_history, arg_user_message, sent_messages>>

NoResponse == ChatResponse(ChatMessage("assistant", TextContent("")), <<>>, None)

\* a caller that makes unrelated calls keeps no notes
NoSplit ==
    [phase |-> "none", s |-> 0, a |-> 0, sm |-> "", result |-> <<>>,
     ended |-> "", given |-> FALSE, script |-> <<>>,
     noted |-> [ended |-> "", calls |-> 0, log |-> <<>>, result |-> NoResponse]]

(***************************************************************************)
(* ConversationRunner.__init__                                             *)
(***************************************************************************)
\* a TurnRunner that accepts tools without an executor
TurnRunnerCtorError_unchecked(ts, ex) == None

\* TurnRunner.__init__: the exception it raises, None if it constructs
TurnRunnerCtorError(ts, ex) ==
    IF ts # <<>> /\ ex = None THEN "ValueError:tool_executor" ELSE None

\* a runner that accepts a single participant
CtorError_requires_one(ps, ts, ex) ==
    IF Len(ps) < 1 THEN "ValueError:participants"
    ELSE IF ts # <<>> /\ ex = None THEN "ValueError:tool_executor"
    ELSE TurnRunnerCtorError(ts, ex)

\* ConversationRunner.__init__: the exception it raises, None if it
\* constructs; the TurnRunner of each participant is built last
CtorError(ps, ts, ex) ==
    IF Len(ps) < MIN_PARTICIPANTS THEN "ValueError:participants"
    ELSE IF ts # <<>> /\ ex = None THEN "ValueError:tool_executor"
    ELSE TurnRunnerCtorError(ts, ex)

\* self._turn_runners[name]: a later participant of the same name replaces
\* an earlier one
TurnRunnerOf(ps, n) ==
    ps[CHOOSE i \in 1..Len(ps) :
        /\ ps[i].name = n
        /\ \A j \in (i+1)..Len(ps) : ps[j].name # n]

InitState ==
    /\ built \in Builds
    /\ participants \in
           IF built = "TurnRunner"
           THEN {ps \in ParticipantLists : Len(ps) = 1}
           ELSE ParticipantLists
    /\ tools \in ToolLists
    /\ tool_executor \in Executors
    /\ exc = IF built = "TurnRunner"
             THEN TurnRunnerCtorError(tools, tool_executor)
             ELSE CtorError(participants, tools, tool_executor)
    /\ pc = IF exc = None THEN "idle" ELSE "ctor_raised"
    /\ mode = None
    /\ transcript = <<>>
    /\ starting_participant = NoParticipant
    /\ max_turns = NoMaxTurns
    /\ stop_condition = None
    /\ current_participant_idx = 0
    /\ current_message = ""
    /\ turn_count = 0
    /\ result = NoResponse
    /\ runner = Alice
    /\ messages = <<>>
    /\ response = NoResponse
    /\ executed_calls = <<>>
    /\ steps = 0
    /\ max_tool_steps = 0
    /\ call_idx = 0
    /\ arg_history = <<>>
    /\ arg_user_message = ""
    /\ sent_messages = <<>>
    /\ ops = 0
    /\ init_turns = <<>>
    /\ adapter_calls = 0
    /\ tool_execs = 0
    /\ exec_log = <<>>
    /\ stop_evals = 0
    /\ turns_started = 0
    /\ caller_has_transcript = FALSE
    /\ resumed = 0 - 1

\* two participants of the list have the same name
SameNames(ps) == \E i, j \in 1..Len(ps) : i # j /\ ps[i].name = ps[j].name

\* a list with a repeated name is run with the adapters that answer in one
\* way only
Init ==
    /\ InitState
    /\ adapter \in (IF SameNames(participants) THEN Adapters \ {"any"} ELSE Adapters)
    /\ split = NoSplit


(***************************************************************************)
(* Conversions.                                                            *)
(***************************************************************************)
\* json.dumps on the values the model uses
json_dumps(v) ==
    CASE v = "Paris" -> "\"Paris\""
      [] v = "Rome" -> "\"Rome\""
      [] v = "UTC" -> "\"UTC\""
      [] v = "sunny" -> "\"sunny\""
      [] OTHER -> "null"

\* str(dict) of a structured message content
py_str(c) ==
    CASE c.kind = "dict" -> "{'text': 'hi'}"
      [] c.kind = "tool_calls" -> "{'tool_calls': [...]}"
      [] c.kind = "tool_result" -> "{'tool_call_id': ..., 'content': ...}"
      [] OTHER -> c.text

\* what the tool executor may return
ToolResults == {"sunny"}

(***************************************************************************)
(* TurnRunner.run_turn: the pure parts.                                    *)
(***************************************************************************)
\* a message list that puts the history before the system prompts
build_messages_history_first(p, history, user_message) ==
    history \o system_prompts(p) \o <<ChatMessage("user", TextContent(user_message))>>

\* system prompts + history + new user message
build_messages(p, history, user_message) ==
    system_prompts(p) \o history \o <<ChatMessage("user", TextContent(user_message))>>

\* a loop that ignores the step limit
loop_continues_unbounded(r, st, k) == r.tool_calls # <<>>

\* a loop that runs one iteration too many
loop_continues_one_more(r, st, k) == r.tool_calls # <<>> /\ st <= k

\* while response.tool_calls and steps < max_tool_steps
loop_continues(r, st, k) == r.tool_calls # <<>> /\ st < k

\* a validation that looks at the first call only
missing_call_id_first_only(calls) == calls[1].call_id = None

\* call.call_id is None, for some call of the response
missing_call_id(calls) == \E i \in 1..Len(calls) : calls[i].call_id = None

\* the assistant message describing the requested calls
tool_calls_payload(calls) ==
    [i \in 1..Len(calls) |->
        [type |-> "function", id |-> calls[i].call_id,
         function |-> [name |-> calls[i].name,
                       arguments |-> json_dumps(calls[i].arguments)]]]

assistant_tool_message(calls) ==
    ChatMessage("assistant", ToolCallsContent(tool_calls_payload(calls)))

\* a tool-role message that does not say which call it answers
tool_message_without_id(call, res) ==
    ChatMessage("tool", ToolResultContent(None, json_dumps(res)))

\* the tool-role message carrying one result
tool_message(call, res) ==
    ChatMessage("tool", ToolResultContent(call.call_id, json_dumps(res)))

\* a turn that returns the last response whatever it executed
turn_result_last_only(executed, r) == r

\* a turn that counts the calls of the last response among the executed ones
turn_result_with_unresolved(executed, r) ==
    IF executed # <<>> THEN ChatResponse(r.message, executed \o r.tool_calls, r.raw) ELSE r

\* what run_turn returns once the loop has ended
turn_result(executed, r) ==
    IF executed # <<>> THEN ChatResponse(r.message, executed, r.raw) ELSE r

(***************************************************************************)
(* ConversationRunner.run: the pure parts.                                 *)
(***************************************************************************)
\* a lookup that falls back on the first participant
index_of_or_first(ps, p) ==
    IF \E i \in 1..Len(ps) : ps[i] = p
    THEN (CHOOSE i \in 1..Len(ps) : ps[i] = p /\ \A j \in 1..(i-1) : ps[j] # p) - 1
    ELSE 0

\* self.participants.index(starting_participant), -1 for ValueError
index_of(ps, p) ==
    IF \E i \in 1..Len(ps) : ps[i] = p
    THEN (CHOOSE i \in 1..Len(ps) : ps[i] = p /\ \A j \in 1..(i-1) : ps[j] # p) - 1
    ELSE -1

\* a run that always starts with the first participant
starting_index_always_first(ps, sp) == 0

\* lines 92-96: the index the run starts the rotation at
starting_index(ps, sp) == IF sp = NoParticipant THEN 0 ELSE index_of(ps, sp)

\* max_turns is not None and turn_count >= max_turns
cap_reached(mt, tc) == mt # NoMaxTurns /\ tc >= mt

\* the stop conditions callers pass
stop_condition_holds(sc, turns) ==
    CASE sc = "any_DONE" -> \E i \in 1..Len(turns) : turns[i].message = "DONE"
      [] OTHER -> FALSE

\* a stop condition evaluated on the transcript without its newest turn
stop_requested_stale(sc, turns) ==
    sc # None /\ turns # <<>>
    /\ stop_condition_holds(sc, SubSeq(turns, 1, Len(turns) - 1))

\* stop_condition and stop_condition(transcript)
stop_requested(sc, turns) == sc # None /\ stop_condition_holds(sc, turns)

\* a pass that evaluates the stop condition before it looks at the cap
stop_condition_calls_before_cap(mt, tc, sc) ==
    IF sc # None THEN 1 ELSE 0

\* the calls of the stop condition one pass over lines 109-113 makes
stop_condition_calls(mt, tc, sc) ==
    IF ~cap_reached(mt, tc) /\ sc # None THEN 1 ELSE 0

\* a loop that ends when exactly one of the two checks fires
loop_breaks_either_not_both(mt, tc, sc, turns) ==
    cap_reached(mt, tc) # stop_requested(sc, turns)

\* a loop that also ends when a message repeats the one before it
loop_breaks_on_repetition(mt, tc, sc, turns) ==
    \/ cap_reached(mt, tc)
    \/ stop_requested(sc, turns)
    \/ (Len(turns) >= 2 /\ turns[Len(turns)].message = turns[Len(turns) - 1].message)

\* the two checks that end the loop at an iteration boundary
loop_breaks(mt, tc, sc, turns) == cap_reached(mt, tc) \/ stop_requested(sc, turns)

\* a turn count that starts at the length of the transcript
initial_turn_count_total(it) == Len(it)

\* turn_count = 0, whatever the transcript the run extends
initial_turn_count(it) == 0

\* a history that gives the first speaker's turns to the user
build_history_by_speaker(turns) ==
    [i \in 1..Len(turns) |->
        ChatMessage(IF turns[i].role = turns[1].role THEN "user" ELSE "assistant",
                    TextContent(turns[i].message))]

\* _build_history_for_participant
build_history(turns) ==
    [i \in 1..Len(turns) |->
        ChatMessage(IF (i - 1) % 2 = 0 THEN "user" ELSE "assistant",
                    TextContent(turns[i].message))]

\* message_text of a response
message_text(r) ==
    IF r.message.content.kind = "str" THEN r.message.content.text
    ELSE py_str(r.message.content)

\* a record for the first tool call only
tool_invocations_first_only(r) ==
    [i \in 1..(IF r.tool_calls = <<>> THEN 0 ELSE 1) |->
        ToolInvocationRecord(r.tool_calls[i].name, r.tool_calls[i].arguments)]

\* one ToolInvocationRecord per tool call of the response, result unset
tool_invocations(r) ==
    [i \in 1..Len(r.tool_calls) |->
        ToolInvocationRecord(r.tool_calls[i].name, r.tool_calls[i].arguments)]

\* the turn appended for a response
new_turn(p, r) == ConversationTurn(p.name, message_text(r), tool_invocations(r))

\* an index that alternates between the first two participants
next_idx_of_two(idx, n) == (idx + 1) % 2

\* (current_participant_idx + 1) % len(self.participants)
next_idx(idx, n) == (idx + 1) % n

(***************************************************************************)
(* Actions.                                                                *)
(***************************************************************************)
\* no call is in progress: the caller may make one
Callable == pc \in {"idle", "returned", "raised", "turn_returned", "analyze_returned"}

\* the tool calls recorded in a transcript
RECURSIVE tool_calls_so_far(_)
tool_calls_so_far(turns) ==
    IF turns = <<>> THEN 0
    ELSE Len(Head(turns).tool_invocations) + tool_calls_so_far(Tail(turns))

\* the adapter that fails once is failing now
fails_now ==
    adapter = "fails_once" /\ mode = "run" /\ ops = 1
        /\ Len(transcript) = Len(init_turns) + 1

\* the answer of an adapter that goes by the text of the last message it is
\* sent: the starting message gets a dict, the dict gets "DONE", and
\* anything else gets the starting message back
reply_to(last) ==
    IF last.content.kind = "str" /\ last.content.text \in StartingMessages
    THEN DictContent("hi")
    ELSE IF last.content = TextContent(py_str(DictContent("hi")))
    THEN TextContent("DONE")
    ELSE TextContent(CHOOSE sm \in StartingMessages : TRUE)

\* what the adapter may answer now
Answers ==
    IF adapter = "scripted"
    THEN IF adapter_calls \in 1..Len(split.script)
         THEN {split.script[adapter_calls]}
         ELSE {ChatResponse(ChatMessage("assistant", TextContent("hello")), <<>>, "raw")}
    ELSE IF adapter = "by_last_message"
    THEN IF messages = <<>> THEN {}
         ELSE {ChatResponse(ChatMessage("assistant", reply_to(messages[Len(messages)])),
                            <<>>, "raw")}
    ELSE IF adapter = "fails_once"
    THEN IF fails_now THEN {}
         ELSE {ChatResponse(ChatMessage("assistant", TextContent("hello")), <<>>, "raw")}
    ELSE IF adapter = "always_tool"
    THEN {ChatResponse(ChatMessage("assistant", TextContent("")), <<callA>>, "raw")}
    ELSE IF adapter = "done_sixth"
    THEN {ChatResponse(ChatMessage("assistant",
              IF Len(messages) - Len(runner._system_prompts) >= DONE_AT
              THEN TextContent("DONE") ELSE DictContent("hi")), <<>>, "raw")}
    ELSE FinalResponses \cup
         (IF tool_calls_so_far(transcript) + Len(executed_calls) < MaxToolCalls
          THEN ToolResponses ELSE {})

\* run_turn up to its first adapter call: lines 68-80
EnterTurn(p, history, user_message, k) ==
    /\ runner' = p
    /\ arg_history' = history
    /\ arg_user_message' = user_message
    /\ sent_messages' = <<>>
    /\ messages' = build_messages(p, history, user_message)
    /\ response' = NoResponse
    /\ executed_calls' = <<>>
    /\ steps' = 0
    /\ max_tool_steps' = k
    /\ call_idx' = 0
    /\ adapter_calls' = 1
    /\ tool_execs' = 0
    /\ exec_log' = <<>>
    /\ pc' = "send"

\* a run that, given no transcript, goes on with the one of the run before it
initial_or_new_shared(it) == IF it.given THEN it.turns ELSE transcript

\* a run that always starts from a new transcript
initial_or_new_always_new(it) == <<>>

\* initial_transcript or ConversationTranscript(): a ConversationTranscript
\* is true, also when it has no turns
initial_or_new(it) == IF it.given THEN it.turns ELSE <<>>

\* a run that raised AdapterError or ToolError is the last call made
RunFailed ==
    mode = "run" /\ pc = "raised" /\ exc \in {"AdapterError", "ToolError"}

\* the caller makes the failed call again, with the transcript it holds or
\* with none
IsRetry(sp, mt, sc, it) ==
    /\ adapter = "fails_once"
    /\ RunFailed
    /\ ops = MaxOps
    /\ sp = starting_participant /\ mt = max_turns /\ sc = stop_condition
    /\ it \in {NoTranscript} \cup
               (IF caller_has_transcript THEN {GivenTranscript(transcript)} ELSE {})

\* ConversationRunner.run up to its loop: lines 88-105
RunCall(sm, sp, mt, sc, it) ==
    /\ ops' = ops + 1
    /\ mode' = "run"
    /\ stop_evals' = 0
    /\ turns_started' = 0
    /\ transcript' = initial_or_new(it)
    /\ init_turns' = it.turns
    /\ caller_has_transcript' = it.given
    /\ resumed' = IF RunFailed /\ caller_has_transcript /\ it = GivenTranscript(transcript)
                  THEN Len(transcript) ELSE 0 - 1
    /\ starting_participant' = sp
    /\ max_turns' = mt
    /\ stop_condition' = sc
    /\ adapter_calls' = 0
    /\ tool_execs' = 0
    /\ exec_log' = <<>>
    /\ result' = NoResponse
    /\ runner' = Alice
    /\ arg_history' = <<>>
    /\ arg_user_message' = ""
    /\ sent_messages' = <<>>
    /\ messages' = <<>>
    /\ response' = NoResponse
    /\ executed_calls' = <<>>
    /\ steps' = 0
    /\ max_tool_steps' = 0
    /\ call_idx' = 0
    /\ IF sp # NoParticipant /\ index_of(participants, sp) < 0
       THEN /\ pc' = "raised"
            /\ exc' = "ValueError:starting_participant"
            /\ current_participant_idx' = 0
            /\ current_message' = ""
            /\ turn_count' = 0
       ELSE /\ pc' = "loop"
            /\ exc' = None
            /\ current_participant_idx' = starting_index(participants, sp)
            /\ current_message' = sm
            /\ turn_count' = initial_turn_count(initial_or_new(it))
    /\ UNCHANGED config

\* ConversationRunner.run is called
RunStart(sm, sp, mt, sc, it) ==
    /\ Callable
    /\ built = "ConversationRunner"
    /\ ops < MaxOps \/ IsRetry(sp, mt, sc, it)
    /\ RunCall(sm, sp, mt, sc, it)
    /\ UNCHANGED split

\* the loop ends at an iteration boundary: lines 109-113, 168
RunReturn ==
    /\ pc = "loop"
    /\ loop_breaks(max_turns, turn_count, stop_condition, transcript)
    /\ pc' = "returned"
    /\ stop_evals' = stop_evals + stop_condition_calls(max_turns, turn_count, stop_condition)
    /\ caller_has_transcript' = TRUE
    /\ UNCHANGED <<config, mode, exc, transcript, run_locals, result, turn_locals,
                   ops, init_turns, adapter_calls, tool_execs, exec_log, resumed,
                   turns_started, split>>

\* the loop goes on: lines 116-130, up to the adapter call of run_turn
BeginTurn ==
    /\ pc = "loop"
    /\ ~loop_breaks(max_turns, turn_count, stop_condition, transcript)
    /\ Len(transcript) < (IF adapter = "any" THEN MaxLen ELSE LongLen)
    /\ stop_evals' = stop_evals + stop_condition_calls(max_turns, turn_count, stop_condition)
    /\ turns_started' = turns_started + 1
    /\ EnterTurn(TurnRunnerOf(participants, participants[current_participant_idx + 1].name),
                 build_history(transcript), current_message, RUN_MAX_TOOL_STEPS)
    /\ UNCHANGED <<config, mode, exc, transcript, run_locals, result,
                   ops, init_turns, caller_view>>

\* TurnRunner.run_turn is called by the caller itself
DirectRunTurn(p, history, user_message, k) ==
    /\ Callable
    /\ ops < MaxOps
    /\ ops' = ops + 1
    /\ mode' = "turn"
    /\ stop_evals' = 0
    /\ turns_started' = 0
    /\ exc' = None
    /\ result' = NoResponse
    /\ init_turns' = transcript
    /\ starting_participant' = NoParticipant
    /\ max_turns' = NoMaxTurns
    /\ stop_condition' = None
    /\ current_participant_idx' = 0
    /\ current_message' = ""
    /\ turn_count' = 0
    /\ resumed' = 0 - 1
    /\ EnterTurn(p, history, user_message, k)
    /\ UNCHANGED <<config, transcript, caller_has_transcript, split>>

\* a run that hands every turn the message it handed to the first one
TurnReturns_keeps_message(ret) ==
    /\ result' = ret
    /\ IF mode = "run"
       THEN /\ transcript' = add_turn(transcript,
                                new_turn(participants[current_participant_idx + 1], ret))
            /\ current_participant_idx' = next_idx(current_participant_idx, Len(participants))
            /\ turn_count' = turn_count + 1
            /\ pc' = "loop"
            /\ UNCHANGED current_message
       ELSE /\ pc' = "turn_returned"
            /\ UNCHANGED <<transcript, current_message, current_participant_idx, turn_count>>

\* a run that goes on to the next turn and appends this one later
TurnReturns_appends_later(ret) ==
    /\ result' = ret
    /\ IF mode = "run"
       THEN /\ current_message' = message_text(ret)
            /\ current_participant_idx' = next_idx(current_participant_idx, Len(participants))
            /\ turn_count' = turn_count + 1
            /\ pc' = "loop"
            /\ UNCHANGED transcript
       ELSE /\ pc' = "turn_returned"
            /\ UNCHANGED <<transcript, current_message, current_participant_idx, turn_count>>

\* run_turn returns ret: to the caller, or to run, which appends the turn
\* (lines 132-166) and reaches the next iteration boundary
TurnReturns(ret) ==
    /\ result' = ret
    /\ IF mode = "run"
       THEN /\ transcript' = add_turn(transcript,
                                new_turn(participants[current_participant_idx + 1], ret))
            /\ current_message' = message_text(ret)
            /\ current_participant_idx' = next_idx(current_participant_idx, Len(participants))
            /\ turn_count' = turn_count + 1
            /\ pc' = "loop"
       ELSE /\ pc' = "turn_returned"
            /\ UNCHANGED <<transcript, current_message, current_participant_idx, turn_count>>

\* a turn that, without an executor, skips the calls and asks again
AdapterRespond_skips_calls(r) ==
    /\ pc \in {"send", "resend"}
    /\ response' = r
    /\ sent_messages' = messages
    /\ steps' = IF pc = "resend" THEN steps + 1 ELSE steps
    /\ IF loop_continues(r, steps', max_tool_steps)
       THEN /\ executed_calls' = executed_calls \o r.tool_calls
            /\ IF missing_call_id(r.tool_calls)
               THEN /\ pc' = "raised"
                    /\ exc' = "ValueError:call_id"
                    /\ UNCHANGED <<messages, call_idx, adapter_calls>>
               ELSE /\ messages' = Append(messages, assistant_tool_message(r.tool_calls))
                    /\ IF tool_executor = None
                       THEN /\ pc' = "resend"
                            /\ adapter_calls' = adapter_calls + 1
                            /\ UNCHANGED <<call_idx, exc>>
                       ELSE /\ pc' = "exec"
                            /\ call_idx' = 1
                            /\ UNCHANGED <<exc, adapter_calls>>
            /\ UNCHANGED <<transcript, current_message, current_participant_idx,
                           turn_count, result>>
       ELSE /\ TurnReturns(turn_result(executed_calls, r))
            /\ UNCHANGED <<exc, messages, executed_calls, call_idx, adapter_calls>>
    /\ UNCHANGED <<config, mode, starting_participant, max_turns, stop_condition,
                   runner, max_tool_steps, arg_history, arg_user_message,
                   ops, init_turns, stop_evals, turns_started, tool_execs, exec_log, caller_view>>

\* the adapter answers r; run_turn runs on to its next external call:
\* turn_runner.py lines 83-114 and 134-142
AdapterRespond(r) ==
    /\ pc \in {"send", "resend"}
    /\ response' = r
    /\ sent_messages' = messages
    /\ steps' = IF pc = "resend" THEN steps + 1 ELSE steps
    /\ IF loop_continues(r, steps', max_tool_steps)
       THEN /\ executed_calls' = executed_calls \o r.tool_calls
            /\ IF missing_call_id(r.tool_calls)
               THEN /\ pc' = "raised"
                    /\ exc' = "ValueError:call_id"
                    /\ UNCHANGED <<messages, call_idx>>
               ELSE /\ messages' = Append(messages, assistant_tool_message(r.tool_calls))
                    /\ IF tool_executor = None
                       THEN /\ pc' = "raised"
                            /\ exc' = "AssertionError"
                            /\ UNCHANGED call_idx
                       ELSE /\ pc' = "exec"
                            /\ call_idx' = 1
                            /\ UNCHANGED exc
            /\ UNCHANGED <<transcript, current_message, current_participant_idx,
                           turn_count, result>>
       ELSE /\ TurnReturns(turn_result(executed_calls, r))
            /\ UNCHANGED <<exc, messages, executed_calls, call_idx>>
    /\ UNCHANGED <<config, mode, starting_participant, max_turns, stop_condition,
                   runner, max_tool_steps, arg_history, arg_user_message,
                   ops, init_turns, stop_evals, turns_started, adapter_calls, tool_execs, exec_log, caller_view>>

\* a core that sends the request again when the adapter raises
AdapterRaise_retries ==
    /\ pc \in {"send", "resend"}
    /\ adapter = "any" \/ fails_now
    /\ adapter_calls' = adapter_calls + 1
    /\ UNCHANGED <<config, pc, mode, exc, transcript, run_locals, result, turn_locals,
                   ops, init_turns, stop_evals, turns_started, tool_execs, exec_log, caller_view>>

\* the adapter raises: nothing catches it (turn_runner.py:74, 127,
\* conversation_runner.py:124, analyzer.py:105), so it leaves the call
AdapterRaise ==
    /\ pc \in {"send", "resend", "analyze_send"}
    /\ adapter = "any" \/ fails_now
    /\ pc' = "raised"
    /\ exc' = "AdapterError"
    /\ UNCHANGED <<config, mode, transcript, run_locals, result, turn_locals,
                   ops, init_turns, stop_evals, turns_started, adapter_calls, tool_execs, exec_log, caller_view>>

\* a turn that works on the list of its caller: the result lands in history
ToolReturn_extends_history(res) ==
    /\ pc = "exec"
    /\ tool_execs' = tool_execs + 1
    /\ exec_log' = Append(exec_log, response.tool_calls[call_idx])
    /\ messages' = Append(messages, tool_message(response.tool_calls[call_idx], res))
    /\ arg_history' = Append(arg_history, tool_message(response.tool_calls[call_idx], res))
    /\ IF call_idx < Len(response.tool_calls)
       THEN /\ call_idx' = call_idx + 1
            /\ UNCHANGED <<pc, adapter_calls>>
       ELSE /\ pc' = "resend"
            /\ adapter_calls' = adapter_calls + 1
            /\ UNCHANGED call_idx
    /\ UNCHANGED <<config, mode, exc, transcript, run_locals, result, runner, response,
                   executed_calls, steps, max_tool_steps, arg_user_message,
                   sent_messages, ops, init_turns, stop_evals, turns_started, caller_view>>

\* the tool executor returns res for call call_idx: the result is appended
\* (lines 116-124), then the next call runs or the adapter is called again
ToolReturn(res) ==
    /\ pc = "exec"
    /\ tool_execs' = tool_execs + 1
    /\ exec_log' = Append(exec_log, response.tool_calls[call_idx])
    /\ messages' = Append(messages, tool_message(response.tool_calls[call_idx], res))
    /\ IF call_idx < Len(response.tool_calls)
       THEN /\ call_idx' = call_idx + 1
            /\ UNCHANGED <<pc, adapter_calls>>
       ELSE /\ pc' = "resend"
            /\ adapter_calls' = adapter_calls + 1
            /\ UNCHANGED call_idx
    /\ UNCHANGED <<config, mode, exc, transcript, run_locals, result, runner, response,
                   executed_calls, steps, max_tool_steps, arg_history, arg_user_message,
                   sent_messages, ops, init_turns, stop_evals, turns_started, caller_view>>

\* a run that records the failing turn, with the calls made so far
ToolRaise_records_partial_turn ==
    /\ pc = "exec"
    /\ pc' = "raised"
    /\ exc' = "ToolError"
    /\ transcript' =
           IF mode = "run"
           THEN add_turn(transcript,
                    ConversationTurn(runner.name, "",
                        [i \in 1..call_idx |->
                            ToolInvocationRecord(response.tool_calls[i].name,
                                                 response.tool_calls[i].arguments)]))
           ELSE transcript
    /\ UNCHANGED <<config, mode, run_locals, result, turn_locals,
                   ops, init_turns, stop_evals, turns_started, adapter_calls, tool_execs, exec_log, caller_view>>

\* the tool executor raises: nothing catches it (turn_runner.py:114,
\* conversation_runner.py:124), so it leaves run_turn and run
ToolRaise ==
    /\ pc = "exec"
    /\ pc' = "raised"
    /\ exc' = "ToolError"
    /\ UNCHANGED <<config, mode, transcript, run_locals, result, turn_locals,
                   ops, init_turns, stop_evals, turns_started, adapter_calls, tool_execs, exec_log, caller_view>>

(***************************************************************************)
(* conversation/analyzer.py: TranscriptAnalyzer                            *)
(***************************************************************************)
\* the lines _format_transcript writes for one tool invocation
invocation_lines(inv) ==
    <<[line |-> "    - tool_name: arguments",
       tool_name |-> inv.tool_name, arguments |-> inv.arguments]>>
    \o (IF inv.result # None THEN <<[line |-> "      Result:", result |-> inv.result]>> ELSE <<>>)
    \o (IF inv.error # None THEN <<[line |-> "      Error:", error |-> inv.error]>> ELSE <<>>)

RECURSIVE all_invocation_lines(_)
all_invocation_lines(invs) ==
    IF invs = <<>> THEN <<>>
    ELSE invocation_lines(Head(invs)) \o all_invocation_lines(Tail(invs))

\* the lines _format_transcript writes for turn idx (from 1)
turn_lines(idx, turn) ==
    <<[line |-> "Turn idx (role):", idx |-> idx, role |-> turn.role],
      [line |-> "  message", message |-> turn.message]>>
    \o (IF turn.tool_invocations # <<>>
        THEN <<[line |-> "  Tool Calls:"]>> \o all_invocation_lines(turn.tool_invocations)
        ELSE <<>>)
    \o <<[line |-> ""]>>

RECURSIVE format_from(_, _)
format_from(idx, turns) ==
    IF idx > Len(turns) THEN <<>>
    ELSE turn_lines(idx, turns[idx]) \o format_from(idx + 1, turns)

\* TranscriptAnalyzer._format_transcript: the lines of the text
format_transcript(turns) == format_from(1, turns)

\* the text of the user message analyze sends: the analysis prompt and a
\* separator, or the standard request, then the formatted transcript
AnalysisContent(analysis_prompt, turns) ==
    [kind |-> "str",
     head |-> IF analysis_prompt # None
              THEN <<analysis_prompt, "--- CONVERSATION TRANSCRIPT ---">>
              ELSE <<"Please analyze the following conversation:">>,
     transcript_text |-> format_transcript(turns)]

\* an analyzer that also replays the transcript as history
analyze_messages_with_history(p, turns, analysis_prompt) ==
    system_prompts(p)
        \o [i \in 1..Len(turns) |->
               ChatMessage(IF (i - 1) % 2 = 0 THEN "user" ELSE "assistant",
                           TextContent(turns[i].message))]
        \o <<ChatMessage("user", AnalysisContent(analysis_prompt, turns))>>

\* analyze, lines 84-102: the messages of its one adapter call
analyze_messages(p, turns, analysis_prompt) ==
    system_prompts(p) \o <<ChatMessage("user", AnalysisContent(analysis_prompt, turns))>>

\* TranscriptAnalyzer(participant=p).analyze(transcript, analysis_prompt):
\* lines 84-109, up to the adapter call
AnalyzeStart(p, t, analysis_prompt) ==
    /\ Callable
    /\ ops < MaxOps
    /\ ops' = ops + 1
    /\ mode' = "analyze"
    /\ pc' = "analyze_send"
    /\ exc' = None
    /\ transcript' = t
    /\ init_turns' = t
    /\ caller_has_transcript' = TRUE
    /\ resumed' = 0 - 1
    /\ stop_evals' = 0
    /\ turns_started' = 0
    /\ starting_participant' = NoParticipant
    /\ max_turns' = NoMaxTurns
    /\ stop_condition' = None
    /\ current_participant_idx' = 0
    /\ current_message' = ""
    /\ turn_count' = 0
    /\ result' = NoResponse
    /\ runner' = p
    /\ messages' = analyze_messages(p, t, analysis_prompt)
    /\ response' = NoResponse
    /\ executed_calls' = <<>>
    /\ steps' = 0
    /\ max_tool_steps' = 0
    /\ call_idx' = 0
    /\ arg_history' = <<>>
    /\ arg_user_message' = ""
    /\ sent_messages' = <<>>
    /\ adapter_calls' = 1
    /\ tool_execs' = 0
    /\ exec_log' = <<>>
    /\ UNCHANGED <<config, split>>

\* the adapter answers r and analyze returns it: lines 104-111
AnalyzeRespond(r) ==
    /\ pc = "analyze_send"
    /\ response' = r
    /\ sent_messages' = messages
    /\ result' = r
    /\ pc' = "analyze_returned"
    /\ UNCHANGED <<config, mode, exc, transcript, run_locals, runner, messages,
                   executed_calls, steps, max_tool_steps, call_idx, arg_history,
                   arg_user_message, ops, init_turns, stop_evals, turns_started, adapter_calls,
                   tool_execs, exec_log, caller_view>>

\* the participants a caller makes an analyst of
Analysts == {Bob, Carol}

\* analysis_prompt=None or a prompt
AnalysisPrompts == {None, "Score it"}

\* the transcripts a caller may have analyzed
AnalyzedTranscripts ==
    SuppliedTranscripts \cup (IF caller_has_transcript THEN {transcript} ELSE {})

MaxTurnsArgs == {NoMaxTurns} \cup 0..MaxTurnsArg

StartingParticipants == {NoParticipant, Carol}

\* what a caller may pass as initial_transcript: nothing, a transcript it
\* built, or the transcript of an earlier run if it holds it
InitialTranscripts ==
    {NoTranscript} \cup {GivenTranscript(t) : t \in SuppliedTranscripts}
        \cup (IF caller_has_transcript THEN {GivenTranscript(transcript)} ELSE {})

Next ==
    \/ \E sm \in StartingMessages, sp \in StartingParticipants,
          mt \in MaxTurnsArgs, sc \in StopConditions,
          it \in InitialTranscripts :
            RunStart(sm, sp, mt, sc, it)
    \/ RunReturn
    \/ BeginTurn
    \/ \E i \in 1..Len(participants), h \in SuppliedHistories, k \in 0..MaxStepsArg :
            DirectRunTurn(participants[i], h, "Ask", k)
    \/ \E r \in Answers : AdapterRespond(r)
    \/ \E p \in Analysts, t \in AnalyzedTranscripts, ap \in AnalysisPrompts :
            AnalyzeStart(p, t, ap)
    \/ \E r \in Answers : AnalyzeRespond(r)
    \/ AdapterRaise
    \/ \E res \in ToolResults : ToolReturn(res)
    \/ ToolRaise

Spec == Init /\ [][Next]_vars

(***************************************************************************)
(* A caller that splits a run: a turns, then b more turns on the result,   *)
(* then the a + b turns again in one run, on a ConversationRunner whose    *)
(* adapters answer by the messages they are sent.                          *)
(***************************************************************************)
\* adapters whose answer depends only on the messages they receive
MessageAdapters == {"always_tool", "done_sixth", "by_last_message"}

SplitInit ==
    /\ InitState
    /\ built = "ConversationRunner"
    /\ exc = None
    /\ adapter \in MessageAdapters
    /\ split = [NoSplit EXCEPT !.phase = "start"]

\* run(starting_message=sm, starting_participant=participants[s], max_turns=a)
SplitFirst(sm, s, a) ==
    /\ split.phase = "start"
    /\ pc = "idle"
    /\ RunCall(sm, participants[s + 1], a, None, NoTranscript)
    /\ split' = [split EXCEPT !.phase = "first", !.s = s, !.a = a, !.sm = sm]

\* run(starting_message=<message of the last turn>,
\*     starting_participant=participants[(s + a) % N], max_turns=b,
\*     initial_transcript=<the transcript the first run returned>)
SplitContinue(b) ==
    /\ split.phase = "first"
    /\ pc = "returned"
    /\ RunCall(transcript[Len(transcript)].message,
               participants[((split.s + split.a) % Len(participants)) + 1],
               b, None, GivenTranscript(transcript))
    /\ split' = [split EXCEPT !.phase = "second"]

\* the caller keeps the result and makes the single run of a + b turns
SplitWhole ==
    /\ split.phase = "second"
    /\ pc = "returned"
    /\ RunCall(split.sm, participants[split.s + 1], split.a + max_turns, None, NoTranscript)
    /\ split' = [split EXCEPT !.phase = "whole", !.result = transcript]

SplitNext ==
    \/ \E sm \in StartingMessages, s \in 0..(Len(participants) - 1), a \in 1..MaxTurnsArg :
            SplitFirst(sm, s, a)
    \/ \E b \in 1..MaxTurnsArg : SplitContinue(b)
    \/ SplitWhole
    \/ RunReturn
    \/ BeginTurn
    \/ \E r \in Answers : AdapterRespond(r)
    \/ \E res \in ToolResults : ToolReturn(res)

SplitSpec == SplitInit /\ [][SplitNext]_vars

(***************************************************************************)
(* A caller that uses one ConversationRunner for two runs, the second one  *)
(* without starting_participant (examples/debate.py, one run per topic).   *)
(***************************************************************************)
\* the starting messages of the later run
TopicMessages == StartingMessages \cup {"Topic 2"}

AgainInit ==
    /\ InitState
    /\ built = "ConversationRunner"
    /\ exc = None
    /\ adapter \in {"fails_once", "done_sixth", "by_last_message"}
    /\ split = [NoSplit EXCEPT !.phase = "again"]

\* the earlier run, with any arguments and a transcript of its own
AgainFirst(sm, sp, mt, sc) ==
    /\ split.phase = "again"
    /\ pc = "idle"
    /\ RunCall(sm, sp, mt, sc, NoTranscript)
    /\ split' = [split EXCEPT !.phase = "earlier"]

\* the later run, once the earlier one has returned or raised: the caller
\* notes how the earlier run ended and the transcript it left
AgainLater(sm, mt, it) ==
    /\ split.phase = "earlier"
    /\ pc \in {"returned", "raised"}
    /\ it.given => caller_has_transcript /\ it.turns = transcript
    /\ RunCall(sm, NoParticipant, mt, None, it)
    /\ split' = [split EXCEPT !.phase = "later", !.sm = sm, !.result = transcript,
                              !.given = it.given,
                              !.ended = IF pc = "raised" THEN "exception"
                                        ELSE IF cap_reached(max_turns, turn_count)
                                        THEN "cap" ELSE "stop"]

AgainNext ==
    \/ \E sm \in StartingMessages, sp \in StartingParticipants,
          mt \in MaxTurnsArgs, sc \in StopConditions :
            AgainFirst(sm, sp, mt, sc)
    \/ \E sm \in TopicMessages, mt \in 0..MaxTurnsArg,
          it \in {NoTranscript, GivenTranscript(transcript)} :
            AgainLater(sm, mt, it)
    \/ RunReturn
    \/ BeginTurn
    \/ \E r \in Answers : AdapterRespond(r)
    \/ AdapterRaise

AgainSpec == AgainInit /\ [][AgainNext]_vars

(***************************************************************************)
(* engines/assistant.py: the legacy AssistantEngine.run_turn, called with  *)
(* the history, the message, the step limit, the executor and the adapter  *)
(* responses of a TurnRunner.run_turn made just before.                    *)
(***************************************************************************)
\* what the scripted adapter may be told to answer
ScriptResponses ==
    {ChatResponse(ChatMessage("assistant", DictContent("hi")), <<>>, "raw")}
        \cup ToolResponses

\* the responses a scripted adapter returns, call after call
Scripts == UNION {[1..n -> ScriptResponses] : n \in 0..(MaxStepsArg + 1)}

\* f"call_{idx}"
call_idx_text(idx) ==
    CASE idx = 0 -> "call_0"
      [] idx = 1 -> "call_1"
      [] OTHER -> "call_n"

\* call.call_id or f"call_{idx}": line 59
legacy_payload_id(call, idx) ==
    IF call.call_id # None THEN call.call_id ELSE call_idx_text(idx)

\* call.call_id or call.name: line 74
legacy_result_id(call) ==
    IF call.call_id # None THEN call.call_id ELSE call.name

\* lines 54-68
legacy_assistant_message(calls) ==
    ChatMessage("assistant",
        ToolCallsContent(
            [i \in 1..Len(calls) |->
                [type |-> "function", id |-> legacy_payload_id(calls[i], i - 1),
                 function |-> [name |-> calls[i].name,
                               arguments |-> json_dumps(calls[i].arguments)]]]))

\* lines 71-77
legacy_tool_message(call, res) ==
    ChatMessage("tool", ToolResultContent(legacy_result_id(call), json_dumps(res)))

\* lines 40-42
legacy_messages(prompts, history, user_text) ==
    prompts \o history \o <<ChatMessage("user", TextContent(user_text))>>

\* an engine whose loop runs one iteration too many
legacy_loop_continues_one_more(r, st, k) == r.tool_calls # <<>> /\ st <= k

\* while response.tool_calls and steps < max_steps: line 53
legacy_loop_continues(r, st, k) == r.tool_calls # <<>> /\ st < k

LegacyInit ==
    /\ InitState
    /\ built = "TurnRunner"
    /\ exc = None
    /\ adapter = "scripted"
    /\ \E sc \in Scripts : split = [NoSplit EXCEPT !.phase = "engines", !.script = sc]

\* AssistantEngine.run_turn up to its first adapter call: lines 40-50; the
\* caller notes what the TurnRunner made of the same script
LegacyRunTurn ==
    /\ split.phase = "engines"
    /\ mode = "turn"
    /\ pc \in {"turn_returned", "raised"}
    /\ split' = [split EXCEPT !.phase = "legacy",
                              !.noted = [ended |-> pc, calls |-> adapter_calls,
                                         log |-> exec_log, result |-> result]]
    /\ ops' = ops + 1
    /\ mode' = "legacy"
    /\ exc' = None
    /\ result' = NoResponse
    /\ messages' = legacy_messages(system_prompts(runner), arg_history, arg_user_message)
    /\ sent_messages' = <<>>
    /\ response' = NoResponse
    /\ executed_calls' = <<>>
    /\ steps' = 0
    /\ call_idx' = 0
    /\ adapter_calls' = 1
    /\ tool_execs' = 0
    /\ exec_log' = <<>>
    /\ pc' = "legacy_send"
    /\ UNCHANGED <<config, transcript, run_locals, runner, max_tool_steps, arg_history,
                   arg_user_message, init_turns, stop_evals, turns_started,
                   caller_has_transcript, resumed>>

\* the adapter answers r: lines 52-70 and 86-88
LegacyRespond(r) ==
    /\ pc = "legacy_send"
    /\ response' = r
    /\ sent_messages' = messages
    /\ steps' = IF adapter_calls > 1 THEN steps + 1 ELSE steps
    /\ IF legacy_loop_continues(r, steps', max_tool_steps)
       THEN /\ messages' = Append(messages, legacy_assistant_message(r.tool_calls))
            /\ IF tool_executor = None
               THEN /\ pc' = "raised"
                    /\ exc' = "TypeError"
                    /\ UNCHANGED call_idx
               ELSE /\ pc' = "legacy_exec"
                    /\ call_idx' = 1
                    /\ UNCHANGED exc
            /\ UNCHANGED result
       ELSE /\ result' = r
            /\ pc' = "legacy_returned"
            /\ UNCHANGED <<exc, messages, call_idx>>
    /\ UNCHANGED <<config, mode, transcript, run_locals, runner, executed_calls,
                   max_tool_steps, arg_history, arg_user_message, ops, init_turns,
                   stop_evals, turns_started, adapter_calls, tool_execs, exec_log,
                   caller_view>>

\* execute_tool returns res for call call_idx: lines 70-85
LegacyToolReturn(res) ==
    /\ pc = "legacy_exec"
    /\ tool_execs' = tool_execs + 1
    /\ exec_log' = Append(exec_log, response.tool_calls[call_idx])
    /\ messages' = Append(messages, legacy_tool_message(response.tool_calls[call_idx], res))
    /\ IF call_idx < Len(response.tool_calls)
       THEN /\ call_idx' = call_idx + 1
            /\ UNCHANGED <<pc, adapter_calls>>
       ELSE /\ pc' = "legacy_send"
            /\ adapter_calls' = adapter_calls + 1
            /\ UNCHANGED call_idx
    /\ UNCHANGED <<config, mode, exc, transcript, run_locals, result, runner, response,
                   executed_calls, steps, max_tool_steps, arg_history, arg_user_message,
                   sent_messages, ops, init_turns, stop_evals, turns_started, caller_view>>

LegacyNext ==
    \/ \E i \in 1..Len(participants), h \in SuppliedHistories, k \in 0..MaxStepsArg :
            DirectRunTurn(participants[i], h, "Ask", k)
    \/ \E r \in Answers : AdapterRespond(r)
    \/ \E res \in ToolResults : ToolReturn(res)
    \/ LegacyRunTurn
    \/ \E r \in Answers : LegacyRespond(r)
    \/ \E res \in ToolResults : LegacyToolReturn(res)

LegacySpec == LegacyInit /\ [][LegacyNext]_vars

(***************************************************************************)
(* Properties.                                                             *)
(***************************************************************************)
IsPrefix(a, b) == Len(a) <= Len(b) /\ SubSeq(b, 1, Len(a)) = a

\* run_turn has returned and nothing has run since
TurnJustReturned ==
    \/ mode = "turn" /\ pc = "turn_returned"
    \/ mode = "run" /\ pc \in {"loop", "returned"} /\ turn_count > 0

HasNullId(calls) == \E i \in 1..Len(calls) : calls[i].call_id = None

CapTrue == max_turns # NoMaxTurns /\ turn_count >= max_turns

StopTrue(turns) ==
    stop_condition = "any_DONE" /\ \E i \in 1..Len(turns) : turns[i].message = "DONE"

Appended == Len(transcript) - Len(init_turns)

\* C1: append-only transcript.  Every step of a run keeps the transcript it
\* had as a prefix of the transcript it has next, and the turns the run was
\* given stay a prefix of its transcript, however the run ends.
C1_AppendOnly ==
    [][/\ IsPrefix(init_turns', transcript')
       /\ ops' = ops => IsPrefix(transcript, transcript')]_vars

C1_Witness ==
    /\ mode = "run"
    /\ pc = "raised"
    /\ exc \in {"AdapterError", "ToolError"}
    /\ init_turns # <<>>
    /\ Appended >= 1

\* C2 as stated: in a run with no explicit starting participant that has
\* returned, turn i of the transcript has the role of participant i % N.
C2_Original ==
    (mode = "run" /\ pc = "returned" /\ starting_participant = NoParticipant)
        => \A i \in 0..(Len(transcript) - 1) :
              transcript[i + 1].role = participants[(i % Len(participants)) + 1].name

\* C2, amended: in a run with no explicit starting participant, the j-th turn
\* the run appends (j = 0, 1, ...), which is turn len(initial) + j of the
\* transcript, has the role of participant j % N.
C2_RoundRobinAppended ==
    (mode = "run" /\ starting_participant = NoParticipant)
        => \A j \in 0..(Appended - 1) :
              transcript[Len(init_turns) + j + 1].role
                  = participants[(j % Len(participants)) + 1].name

C2_Witness ==
    /\ mode = "run"
    /\ pc = "returned"
    /\ starting_participant = NoParticipant
    /\ Len(participants) = 3
    /\ init_turns = <<>>
    /\ Len(transcript) = 6

\* C3: history alternation.  During a turn of a run the messages after the
\* acting participant's system prompts replay the transcript: turn i (from
\* 0) as a user message when i is even and as an assistant message when i is
\* odd, with the turn's text, whoever produced the turn and whoever acts.
C3_HistoryAlternation ==
    (mode = "run" /\ pc \in {"send", "resend", "exec"})
        => \A i \in 1..Len(transcript) :
              messages[Len(runner._system_prompts) + i]
                  = ChatMessage(IF i % 2 = 1 THEN "user" ELSE "assistant",
                                TextContent(transcript[i].message))

C3_Witness ==
    /\ mode = "run"
    /\ pc = "send"
    /\ Len(transcript) = 3
    /\ transcript[1].role = transcript[3].role
    /\ transcript[2].role = runner.name

\* C4: tool-loop termination.  With an adapter that always returns a tool
\* call, a turn with max_tool_steps = k never makes more than k + 1 adapter
\* calls or k tool executions, and when run_turn returns it has made exactly
\* k + 1 adapter calls and k tool executions.
C4_ToolLoopTermination ==
    adapter = "always_tool"
        => /\ adapter_calls <= max_tool_steps + 1
           /\ tool_execs <= max_tool_steps
           /\ TurnJustReturned
                => adapter_calls = max_tool_steps + 1 /\ tool_execs = max_tool_steps

C4_Witness ==
    /\ adapter = "always_tool"
    /\ mode = "turn"
    /\ pc = "turn_returned"
    /\ max_tool_steps = 2
    /\ adapter_calls = 3
    /\ tool_execs = 2

\* C5: with max_tool_steps = 0 a direct run_turn makes one adapter call,
\* never reaches the tool executor, and returns the first response as it is.
C5_ZeroSteps ==
    (mode = "turn" /\ max_tool_steps = 0)
        => /\ adapter_calls = 1
           /\ tool_execs = 0
           /\ pc \notin {"exec", "resend"}
           /\ pc = "turn_returned" => result = response

C5_Witness ==
    /\ mode = "turn"
    /\ max_tool_steps = 0
    /\ pc = "turn_returned"
    /\ HasNullId(response.tool_calls)
    /\ result = response

\* C6 as stated: once a turn has received a response with a tool call whose
\* call_id is null, the turn has failed with ValueError and no tool has run.
C6_Original ==
    (mode \in {"run", "turn"} /\ HasNullId(response.tool_calls))
        => pc = "raised" /\ exc = "ValueError:call_id" /\ tool_execs = 0

\* C6, amended: a response with a null call_id that the loop goes on to
\* process fails the turn with ValueError before any of that response's
\* calls runs; a response received once the step limit is reached is not
\* validated and is returned.
C6_NullIdProcessed ==
    (mode \in {"run", "turn"} /\ HasNullId(response.tool_calls))
        => \/ /\ pc = "raised"
              /\ exc = "ValueError:call_id"
              /\ steps < max_tool_steps
              /\ tool_execs = Len(executed_calls) - Len(response.tool_calls)
           \/ /\ TurnJustReturned
              /\ steps = max_tool_steps

C6_Witness ==
    /\ pc = "raised"
    /\ exc = "ValueError:call_id"
    /\ HasNullId(response.tool_calls)
    /\ response.tool_calls[1].call_id # None

\* C7: the stop predicate does not suppress the turn being computed.  A
\* turn that run_turn returns is appended whatever it makes of the
\* predicate, and at a boundary where the predicate is true of the
\* transcript the run returns at once: no adapter call, no further turn.
C7_StopAfterTurn ==
    [][/\ (mode = "run" /\ pc \in {"send", "resend"} /\ pc' = "loop")
            => Len(transcript') = Len(transcript) + 1
       /\ (mode = "run" /\ pc = "loop" /\ StopTrue(transcript))
            => /\ pc' = "returned"
               /\ transcript' = transcript
               /\ adapter_calls' = adapter_calls]_vars

C7_Witness ==
    /\ mode = "run"
    /\ pc = "returned"
    /\ Len(participants) = 2
    /\ init_turns = <<>>
    /\ max_turns = NoMaxTurns
    /\ stop_condition = "any_DONE"
    /\ Len(transcript) = 6
    /\ transcript[6].role = "Bob"
    /\ transcript[6].message = "DONE"
    /\ \A i \in 1..5 : transcript[i].message # "DONE"

\* C8: at a boundary where the turn cap is reached and the stop predicate is
\* true, the run returns: nothing is appended and no adapter call is made.
C8_CapAndStop ==
    [][(mode = "run" /\ pc = "loop" /\ CapTrue /\ StopTrue(transcript))
            => /\ pc' = "returned"
               /\ transcript' = transcript
               /\ turn_count' = turn_count
               /\ adapter_calls' = adapter_calls]_vars

C8_Witness ==
    /\ mode = "run"
    /\ pc = "returned"
    /\ CapTrue
    /\ StopTrue(transcript)
    /\ ~StopTrue(init_turns)
    /\ turn_count = 2

\* C9: turn cap.  A run with max_turns = m never appends more than m turns,
\* and when it returns with the stop predicate false it has appended exactly
\* m, whatever the length of the transcript it extends.
C9_TurnCap ==
    (mode = "run" /\ max_turns # NoMaxTurns)
        => /\ Appended <= max_turns
           /\ (pc = "returned" /\ ~StopTrue(transcript)) => Appended = max_turns

C9_Witness ==
    /\ mode = "run"
    /\ pc = "returned"
    /\ max_turns = 2
    /\ init_turns # <<>>
    /\ ~StopTrue(transcript)
    /\ Len(transcript) = Len(init_turns) + 2

\* C10: a run that has returned has its turn cap reached or its stop
\* predicate true of the transcript; with no cap and no true predicate it
\* has not returned.
C10_OnlyCapOrStop ==
    (mode = "run" /\ pc = "returned")
        => /\ exc = None
           /\ CapTrue \/ StopTrue(transcript)

C10_Witness ==
    /\ mode = "run"
    /\ pc = "returned"
    /\ max_turns = NoMaxTurns
    /\ turn_count >= 1
    /\ StopTrue(transcript)

\* C11: an exception of the adapter or of the tool executor leaves run as it
\* was raised and aborts the turn: the transcript then holds the turns the
\* run was given and one turn per completed turn of the run, nothing for the
\* failing turn, whatever calls the failing turn had already executed.
C11_NoPartialTurn ==
    (mode = "run" /\ pc = "raised" /\ exc \in {"AdapterError", "ToolError"})
        => /\ IsPrefix(init_turns, transcript)
           /\ Appended = turn_count

C11_Witness ==
    /\ mode = "run"
    /\ pc = "raised"
    /\ exc = "ToolError"
    /\ turn_count = 1
    /\ Len(transcript) = Len(init_turns) + 1
    /\ tool_execs = 1
    /\ Len(executed_calls) = 2

\* C12 as stated: after a run that completed a turn was ended by an
\* exception of the adapter or of the tool executor, the caller has the
\* transcript of the completed turns.
C12_Original ==
    (RunFailed /\ turn_count >= 1) => caller_has_transcript

\* C12, amended: after a run that was given an initial_transcript was ended
\* by an exception of the adapter or of the tool executor, the caller's
\* transcript holds the turns it was given and the turns the run completed;
\* a later run given that transcript starts from those turns and appends
\* after them.
C12_ReusableWhenGiven ==
    /\ (RunFailed /\ init_turns # <<>>) => caller_has_transcript
    /\ (RunFailed /\ caller_has_transcript)
            => /\ IsPrefix(init_turns, transcript)
               /\ Appended = turn_count
    /\ (mode = "run" /\ resumed >= 0)
            => /\ Len(init_turns) = resumed
               /\ IsPrefix(init_turns, transcript)
               /\ Appended = turn_count

C12_Witness ==
    /\ mode = "run"
    /\ pc = "returned"
    /\ resumed = 2
    /\ Len(init_turns) = 2
    /\ Len(transcript) = 4
    /\ exc = None

\* the tool-loop iterations the turn has entered: one assistant message
\* describing tool calls is appended per iteration
Iterations ==
    Cardinality({i \in 1..Len(messages) : messages[i].content.kind = "tool_calls"})

\* C13: no retry.  A turn sends one request, and one more per tool-loop
\* iteration it completes; once an adapter call has raised, the call is
\* over: the request is not sent again and no tool runs, so the turn has made
\* one adapter call per request and run the calls of the earlier responses
\* only.
C13_NoRetry ==
    /\ pc \in {"send", "resend"} => adapter_calls = Iterations + 1
    /\ pc = "exec" => adapter_calls = Iterations
    /\ exc = "AdapterError"
            => /\ pc = "raised"
               /\ adapter_calls = Iterations + 1
               /\ tool_execs = Len(executed_calls)
               /\ mode = "run" => Appended = turn_count

C13_Witness ==
    /\ pc = "raised"
    /\ exc = "AdapterError"
    /\ mode = "run"
    /\ turn_count = 1
    /\ adapter_calls = 2
    /\ tool_execs = 2

\* C14: when run_turn returns after the tool executor ran at least one call,
\* the tool_calls it returns are the calls the executor was given, in the
\* order it was given them, over all iterations of the turn; the message and
\* raw it returns are those of the last adapter response.
C14_AggregateToolCalls ==
    (TurnJustReturned /\ exec_log # <<>>)
        => /\ result.tool_calls = exec_log
           /\ result.message = response.message
           /\ result.raw = response.raw

C14_Witness ==
    /\ mode = "turn"
    /\ pc = "turn_returned"
    /\ Len(exec_log) = 4
    /\ result.tool_calls = <<callA, callB, callA, callB>>
    /\ response.tool_calls = <<>>
    /\ result.message.content = TextContent("DONE")

\* C15 as stated: when run_turn returns at the step limit, the last response
\* still asking for tools, it returns the message and the tool_calls of that
\* response.
C15_Original ==
    (TurnJustReturned /\ response.tool_calls # <<>>)
        => /\ result.message = response.message
           /\ result.tool_calls = response.tool_calls

\* C15, amended: when run_turn returns at the step limit, the last response
\* still asking for tools, it returns the message and raw of that response;
\* the tool_calls it returns are those of that response if the turn executed
\* no call (max_tool_steps = 0), and otherwise the calls executed in the
\* iterations before, without the calls of the last response.
C15_StepLimitReturn ==
    (TurnJustReturned /\ response.tool_calls # <<>>)
        => /\ steps = max_tool_steps
           /\ result.message = response.message
           /\ result.raw = response.raw
           /\ result.tool_calls =
                  IF exec_log = <<>> THEN response.tool_calls ELSE exec_log

C15_Witness ==
    /\ mode = "turn"
    /\ pc = "turn_returned"
    /\ max_tool_steps = 1
    /\ steps = 1
    /\ response.tool_calls = <<callA, callNoId>>
    /\ result.tool_calls = <<callA, callB>>

\* the turn a run appended last
LastTurn == transcript[Len(transcript)]

\* C16: the turn a run appends carries the name of the participant that
\* acted, the text of the last response, and one record per call the tool
\* executor was given in that turn, in that order, with the call's name and
\* arguments and with result and error unset; a call the last response asks
\* for and the turn did not execute has no record.
C16_TurnRecord ==
    (mode = "run" /\ pc \in {"loop", "returned"} /\ turn_count > 0)
        => /\ LastTurn.role = runner.name
           /\ response.message.content.kind = "str"
                  => LastTurn.message = response.message.content.text
           /\ response.message.content.kind # "str"
                  => LastTurn.message = py_str(response.message.content)
           /\ Len(LastTurn.tool_invocations) = Len(exec_log)
           /\ \A i \in 1..Len(exec_log) :
                  LastTurn.tool_invocations[i] =
                      [tool_name |-> exec_log[i].name,
                       arguments |-> exec_log[i].arguments,
                       result |-> None, error |-> None]

C16_Witness ==
    /\ mode = "run"
    /\ pc = "loop"
    /\ turn_count = 1
    /\ adapter = "always_tool"
    /\ Len(LastTurn.tool_invocations) = RUN_MAX_TOOL_STEPS
    /\ response.tool_calls # <<>>
    /\ adapter_calls = RUN_MAX_TOOL_STEPS + 1

\* C17: the message list of the first adapter call of a turn is the
\* participant's system prompts, in order, as system messages, then the
\* history run_turn was given, in order, then one user message with the
\* user_message run_turn was given, which is its last message.
C17_FirstMessages ==
    pc = "send"
        => /\ Len(messages) = Len(runner._system_prompts) + Len(arg_history) + 1
           /\ \A i \in 1..Len(runner._system_prompts) :
                  messages[i] = [role |-> "system",
                                 content |-> [kind |-> "str", text |-> runner._system_prompts[i]]]
           /\ \A i \in 1..Len(arg_history) :
                  messages[Len(runner._system_prompts) + i] = arg_history[i]
           /\ messages[Len(messages)] =
                  [role |-> "user", content |-> [kind |-> "str", text |-> arg_user_message]]
           /\ mode = "run" => arg_user_message = current_message

C17_Witness ==
    /\ pc = "send"
    /\ mode = "turn"
    /\ runner = Carol
    /\ Len(arg_history) = 2
    /\ Len(messages) = 5
    /\ messages[5].content.text = "Ask"

\* C18: in the third turn of a run of two participants that started without
\* a transcript, the first participant, which has one system prompt, is sent
\* five messages: its system prompt, the starting message of the run as a
\* user message, turn 0 as a user message, turn 1 as an assistant message,
\* and the new user message.
C18_Original ==
    (/\ mode = "run" /\ pc = "send"
     /\ Len(participants) = 2
     /\ starting_participant = NoParticipant
     /\ init_turns = <<>>
     /\ Len(transcript) = 2)
        => /\ Len(messages) = 5
           /\ messages[1] = ChatMessage("system", TextContent("You are Alice"))
           /\ messages[2] = ChatMessage("user", TextContent("Start"))
           /\ messages[3] = ChatMessage("user", TextContent(transcript[1].message))
           /\ messages[4] = ChatMessage("assistant", TextContent(transcript[2].message))
           /\ messages[5].role = "user"

\* C19: a tool-loop iteration gives the tool executor the calls of the
\* response one at a time, in response order, and extends the message list
\* of the answered adapter call by one assistant message describing the calls
\* and then one tool message per call, in the same order and with the call's
\* call_id; the adapter is called again with the extended list, of which the
\* list of the answered call is a prefix.
C19_IterationMessages ==
    LET n == Len(response.tool_calls)
        base == Len(sent_messages)
        done == IF pc = "resend" THEN n ELSE call_idx - 1
    IN  pc \in {"exec", "resend"}
            => /\ IsPrefix(sent_messages, messages)
               /\ Len(messages) = base + 1 + done
               /\ messages[base + 1].role = "assistant"
               /\ messages[base + 1].content.kind = "tool_calls"
               /\ Len(messages[base + 1].content.tool_calls) = n
               /\ \A i \in 1..n :
                      /\ messages[base + 1].content.tool_calls[i].id
                             = response.tool_calls[i].call_id
                      /\ messages[base + 1].content.tool_calls[i].function.name
                             = response.tool_calls[i].name
               /\ \A i \in 1..done :
                      /\ messages[base + 1 + i].role = "tool"
                      /\ messages[base + 1 + i].content.kind = "tool_result"
                      /\ messages[base + 1 + i].content.tool_call_id
                             = response.tool_calls[i].call_id
               /\ tool_execs = Len(exec_log)
               /\ Len(exec_log) >= done
               /\ \A i \in 1..done :
                      exec_log[Len(exec_log) - done + i] = response.tool_calls[i]

C19_Witness ==
    /\ pc = "resend"
    /\ steps = 1
    /\ adapter_calls = 3
    /\ exec_log = <<callA, callB, callA, callB>>
    /\ Len(messages) = Len(sent_messages) + 3
    /\ messages[Len(messages)].content.tool_call_id = "call_2"

\* C20: a run whose starting participant is not one of the participants
\* fails with ValueError before any turn: no adapter call, no tool call, no
\* evaluation of the stop condition, no turn counted, and the transcript it
\* was given is as it was.
C20_InvalidStartingParticipant ==
    (/\ mode = "run"
     /\ starting_participant # NoParticipant
     /\ \A i \in 1..Len(participants) : participants[i] # starting_participant)
        => /\ pc = "raised"
           /\ exc = "ValueError:starting_participant"
           /\ adapter_calls = 0
           /\ tool_execs = 0
           /\ stop_evals = 0
           /\ turn_count = 0
           /\ transcript = init_turns

C20_Witness ==
    /\ mode = "run"
    /\ pc = "raised"
    /\ exc = "ValueError:starting_participant"
    /\ starting_participant = Carol
    /\ participants = <<Alice, Bob>>
    /\ stop_condition = "any_DONE"
    /\ init_turns # <<>>
    /\ caller_has_transcript

\* C21: a ConversationRunner of fewer than two participants is not
\* constructed: the constructor raises ValueError and nothing is ever called
\* on it, so a run has at least two participants.
C21_TwoParticipants ==
    /\ (built = "ConversationRunner" /\ Len(participants) < 2)
            => /\ pc = "ctor_raised"
               /\ exc = "ValueError:participants"
               /\ ops = 0
               /\ mode = None
    /\ mode = "run" => Len(participants) >= 2

C21_Witness ==
    /\ built = "ConversationRunner"
    /\ Len(participants) = 1
    /\ tools # <<>>
    /\ tool_executor = None
    /\ pc = "ctor_raised"
    /\ exc = "ValueError:participants"

\* C22: tools without a tool executor are rejected by the constructor of a
\* ConversationRunner and of a TurnRunner, with ValueError: nothing is ever
\* called on such an object, so a turn that offers tools to the adapter has
\* a tool executor.
C22_ToolsNeedExecutor ==
    /\ (tools # <<>> /\ tool_executor = None)
            => /\ pc = "ctor_raised"
               /\ exc = IF built = "ConversationRunner" /\ Len(participants) < 2
                        THEN "ValueError:participants"
                        ELSE "ValueError:tool_executor"
               /\ ops = 0
               /\ adapter_calls = 0
    /\ (pc \in {"send", "resend", "exec"} /\ tools # <<>>) => tool_executor # None
    /\ (exc = "AssertionError") => tools = <<>>

C22_Witness ==
    /\ built = "TurnRunner"
    /\ tools # <<>>
    /\ tool_executor = None
    /\ pc = "ctor_raised"
    /\ exc = "ValueError:tool_executor"

\* C23: analyze makes one adapter call, with the analyst's system prompts
\* and then one user message, runs no tool whatever the response asks for,
\* returns the response as the adapter gave it, and leaves the transcript it
\* analyzed with the turns it had.
C23_AnalyzeReadOnly ==
    mode = "analyze"
        => /\ pc \in {"analyze_send", "analyze_returned", "raised"}
           /\ adapter_calls = 1
           /\ tool_execs = 0
           /\ transcript = init_turns
           /\ Len(messages) = Len(runner._system_prompts) + 1
           /\ \A i \in 1..Len(runner._system_prompts) :
                  messages[i] = [role |-> "system",
                                 content |-> [kind |-> "str", text |-> runner._system_prompts[i]]]
           /\ messages[Len(messages)].role = "user"
           /\ pc = "analyze_returned" => result = response /\ exc = None

C23_Witness ==
    /\ mode = "analyze"
    /\ pc = "analyze_returned"
    /\ runner = Carol
    /\ transcript # <<>>
    /\ result.tool_calls = <<callA, callNoId>>
    /\ Len(messages) = 3

\* the index of the starting participant of the run in progress: 0 when
\* none was given
StartIndex ==
    IF starting_participant = NoParticipant THEN 0
    ELSE (CHOOSE i \in 1..Len(participants) :
             /\ participants[i] = starting_participant
             /\ \A k \in 1..(i - 1) : participants[k] # starting_participant) - 1

\* C24: in a run that starts at index s of the participants, the j-th turn
\* the run appends (j = 0, 1, ...) has the role of participant (s + j) % N,
\* whatever the transcript the run extends; s = 0 when no starting
\* participant is given.
C24_RotationFromStart ==
    (mode = "run" /\ exc # "ValueError:starting_participant")
        => \A j \in 0..(Appended - 1) :
              transcript[Len(init_turns) + j + 1].role
                  = participants[((StartIndex + j) % Len(participants)) + 1].name

C24_Witness ==
    /\ mode = "run"
    /\ starting_participant = Carol
    /\ init_turns # <<>>
    /\ Appended = 4
    /\ transcript[Len(init_turns) + 1].role = "Carol"
    /\ transcript[Len(init_turns) + 2].role = "Alice"
    /\ transcript[Len(init_turns) + 3].role = "Bob"
    /\ transcript[Len(init_turns) + 4].role = "Carol"

\* C25: one turn at a time.  While a turn of a run is in progress it is the
\* only turn started and not yet appended, and every turn started before it
\* is in the transcript; between turns every turn started is in the
\* transcript.  Within a turn the calls of one response are executed one
\* after the other with no adapter call between them: the adapter is called
\* again only when all of them have run.
C25_OneTurnAtATime ==
    /\ mode = "run"
            => /\ pc \in {"send", "resend", "exec"} => turns_started = Appended + 1
               /\ pc \in {"loop", "returned"} => turns_started = Appended
               /\ turns_started - Appended \in {0, 1}
    /\ pc = "exec"
            => /\ adapter_calls = Iterations
               /\ Len(exec_log) =
                      Len(executed_calls) - Len(response.tool_calls) + call_idx - 1
    /\ pc = "resend"
            => /\ adapter_calls = Iterations + 1
               /\ Len(exec_log) = Len(executed_calls)

C25_Witness ==
    /\ mode = "run"
    /\ pc = "exec"
    /\ turns_started = 2
    /\ Len(transcript) = Len(init_turns) + 1
    /\ call_idx = 2
    /\ Len(exec_log) = 1
    /\ adapter_calls = 1

\* the most tool calls one response carries
MostCalls ==
    CHOOSE n \in 0..MaxToolCalls :
        /\ \A r \in ToolResponses \cup Answers : Len(r.tool_calls) <= n
        /\ \E r \in ToolResponses : Len(r.tool_calls) = n

\* the steps the turn in progress can still take: the adapter calls left of
\* its seven, each followed by the tool calls of one response
TurnRank ==
    IF pc \in {"send", "resend"}
    THEN (7 - adapter_calls) * (MostCalls + 1) + 1
    ELSE IF pc = "exec"
    THEN (6 - adapter_calls) * (MostCalls + 1) + 1
             + (Len(response.tool_calls) - call_idx + 1)
    ELSE 0

\* the steps a run with a turn cap can still take
RunRank ==
    IF pc = "loop"
    THEN (max_turns - turn_count) * 7 * (MostCalls + 1) + 1
    ELSE IF pc \in {"send", "resend", "exec"}
    THEN (max_turns - turn_count - 1) * 7 * (MostCalls + 1) + 1 + TurnRank
    ELSE 0

\* C26: termination under a turn cap.  A run given max_turns = m appends at
\* most m turns, each of its turns makes at most 7 adapter calls and enters
\* at most 6 tool-loop iterations whatever the adapter answers, and every
\* step of the run (an adapter call or a tool call returning, a turn being
\* appended, the loop ending) strictly decreases a non-negative measure of
\* the work left, so the run ends.
C26_TerminatesUnderCap ==
    /\ [](mode = "run"
            => /\ adapter_calls <= 7
               /\ Iterations <= 6
               /\ max_turns # NoMaxTurns
                      => /\ Appended <= max_turns
                         /\ turns_started <= max_turns
                         /\ RunRank >= 0)
    /\ [][(/\ mode = "run"
           /\ max_turns # NoMaxTurns
           /\ pc \in {"loop", "send", "resend", "exec"})
              => RunRank' < RunRank]_vars

C26_Witness ==
    /\ mode = "run"
    /\ pc = "returned"
    /\ max_turns = 2
    /\ Appended = 2
    /\ adapter_calls = 7
    /\ Iterations = 6
    /\ tool_execs = 6

\* C27: the step limit of a turn.  Whatever the adapter answers, a run_turn
\* with max_tool_steps = k enters at most k tool-loop iterations, makes at
\* most k + 1 adapter calls, and executes at most k tool calls.
C27_Original ==
    mode \in {"run", "turn"}
        => /\ Iterations <= max_tool_steps
           /\ adapter_calls <= max_tool_steps + 1
           /\ tool_execs <= max_tool_steps

\* C28: message chaining.  The user message handed to the first turn of a
\* run is the starting message, also when the run extends a transcript; the
\* user message handed to every later turn is the message text of the last
\* turn of the transcript, which is the turn appended just before it.
C28_MessageChaining ==
    (mode = "run" /\ pc \in {"send", "resend", "exec"})
        => /\ Appended = 0 => arg_user_message \in StartingMessages
           /\ Appended > 0 => arg_user_message = LastTurn.message
           /\ messages[Len(runner._system_prompts) + Len(arg_history) + 1]
                  = ChatMessage("user", TextContent(arg_user_message))

C28_Witness ==
    /\ mode = "run"
    /\ pc = "send"
    /\ init_turns = <<ConversationTurn("Alice", "DONE", <<>>)>>
    /\ Appended = 1
    /\ LastTurn.message = py_str(DictContent("hi"))
    /\ arg_user_message = LastTurn.message
    /\ arg_user_message \notin StartingMessages

\* C29: evaluation of the stop predicate.  A run that was given a stop
\* predicate evaluates it at iteration boundaries only, once per boundary at
\* most: while a turn is in progress it has been evaluated once per turn
\* started, each time on the transcript of that boundary (where it was
\* false, and the transcript has not changed since); between turns once per
\* turn produced; and when the run has returned once more, unless the turn
\* cap ended the run before the predicate was looked at.  A run without a
\* predicate evaluates none.
C29_StopEvaluations ==
    mode = "run"
        => /\ stop_condition = None => stop_evals = 0
           /\ stop_condition # None
                => /\ pc \in {"send", "resend", "exec"}
                        => /\ stop_evals = turns_started
                           /\ stop_evals = Appended + 1
                           /\ ~StopTrue(transcript)
                   /\ pc = "loop" => stop_evals = Appended
                   /\ pc = "raised" => stop_evals = turns_started
                   /\ pc = "returned"
                        => /\ stop_evals = Appended + (IF CapTrue THEN 0 ELSE 1)
                           /\ ~CapTrue => StopTrue(transcript)

C29_Witness ==
    /\ mode = "run"
    /\ pc = "returned"
    /\ stop_condition = "any_DONE"
    /\ max_turns = NoMaxTurns
    /\ init_turns = <<>>
    /\ Appended = 2
    /\ stop_evals = 3
    /\ transcript[1].message # "DONE"
    /\ transcript[2].message = "DONE"

\* C30: nothing to do.  A run whose stop predicate is true of the transcript
\* it was given, or whose max_turns is 0, makes no adapter call, runs no
\* tool and appends no turn; once its arguments are accepted its only step
\* is to return, with the transcript holding exactly the turns it was given.
C30_ReturnsAtOnce ==
    /\ []((mode = "run" /\ (StopTrue(init_turns) \/ max_turns = 0))
            => /\ adapter_calls = 0
               /\ tool_execs = 0
               /\ turns_started = 0
               /\ transcript = init_turns
               /\ pc \in {"loop", "returned", "raised"}
               /\ pc = "raised" => exc = "ValueError:starting_participant")
    /\ [][(mode = "run" /\ pc = "loop" /\ (StopTrue(init_turns) \/ max_turns = 0))
            => /\ pc' = "returned"
               /\ transcript' = init_turns
               /\ adapter_calls' = 0]_vars

C30_Witness ==
    /\ mode = "run"
    /\ pc = "returned"
    /\ init_turns = <<ConversationTurn("Alice", "DONE", <<>>)>>
    /\ StopTrue(init_turns)
    /\ max_turns = NoMaxTurns
    /\ transcript = init_turns
    /\ adapter_calls = 0
    /\ stop_evals = 1

\* the tool-role messages of the outbound list, in order
ToolMessages == SelectSeq(messages, LAMBDA m : m.role = "tool")

\* C31: no tool runs and no tool-role message is sent for a call without
\* call_id.  Every call the executor was invoked with has a call_id; the
\* tool-role messages of the outbound list are, in order, the results of
\* the executed calls, each of the structured shape {tool_call_id, content}
\* with the call_id of its call, which is not null.
C31_ExecutedCallsHaveId ==
    mode \in {"run", "turn"}
        => /\ \A i \in 1..Len(exec_log) : exec_log[i].call_id # None
           /\ Len(ToolMessages) = Len(exec_log)
           /\ \A i \in 1..Len(ToolMessages) :
                 /\ ToolMessages[i].content.kind = "tool_result"
                 /\ ToolMessages[i].content.tool_call_id = exec_log[i].call_id
                 /\ ToolMessages[i].content.tool_call_id # None

C31_Witness ==
    /\ mode \in {"run", "turn"}
    /\ pc = "raised"
    /\ exc = "ValueError:call_id"
    /\ HasNullId(response.tool_calls)
    /\ Len(exec_log) = 2
    /\ Len(ToolMessages) = 2

\* the calls of the responses before the last one received
EarlierCalls ==
    SubSeq(executed_calls, 1, Len(executed_calls) - Len(response.tool_calls))

\* C32: validation before execution.  A response the loop processes is
\* validated as a whole before any of its calls runs: while its calls run,
\* and afterwards, none of them lacks a call_id; and when the turn has
\* failed on a call without call_id, the executor has been invoked with the
\* calls of the earlier responses of the turn, all of them, and with none of
\* the failing response, not even the calls that precede the invalid one.
C32_ValidatedAsAWhole ==
    /\ (mode \in {"run", "turn"} /\ pc \in {"exec", "resend"})
            => \A i \in 1..Len(response.tool_calls) :
                   response.tool_calls[i].call_id # None
    /\ (mode \in {"run", "turn"} /\ pc = "raised" /\ exc = "ValueError:call_id")
            => /\ exec_log = EarlierCalls
               /\ tool_execs = Len(EarlierCalls)
               /\ messages[Len(messages)].role # "assistant"
                      \/ messages[Len(messages)].content.kind # "tool_calls"

C32_Witness ==
    /\ mode = "run"
    /\ pc = "raised"
    /\ exc = "ValueError:call_id"
    /\ response.tool_calls = <<callA, callNoId>>
    /\ executed_calls = <<callA, callB, callA, callNoId>>
    /\ exec_log = <<callA, callB>>

\* a turn has been entered and has not been recorded
TurnEntered ==
    \/ mode = "turn"
    \/ mode = "run" /\ pc \in {"send", "resend", "exec"}
    \/ mode = "run" /\ pc = "raised" /\ turns_started > 0

\* C33: run_turn leaves its caller's data alone.  Whether it is still
\* running, has returned or has raised, the history it was handed is the
\* list the caller built (one a direct caller supplied, or the history run
\* derived from the transcript), the outbound list holds a copy of it after
\* the system prompts, and the transcript is the one the turn started with.
C33_HistoryUntouched ==
    TurnEntered
        => /\ mode = "turn" => arg_history \in SuppliedHistories /\ transcript = init_turns
           /\ mode = "run" => /\ Len(arg_history) = Len(transcript)
                              /\ \A i \in 1..Len(arg_history) :
                                     arg_history[i].content = TextContent(transcript[i].message)
                              /\ Appended = turns_started - 1
           /\ Len(messages) > Len(runner._system_prompts) + Len(arg_history)
           /\ \A i \in 1..Len(arg_history) :
                  messages[Len(runner._system_prompts) + i] = arg_history[i]

C33_Witness ==
    /\ mode = "turn"
    /\ pc = "raised"
    /\ exc = "ToolError"
    /\ Len(arg_history) = 2
    /\ tool_execs = 1
    /\ Len(messages) > Len(runner._system_prompts) + Len(arg_history) + 2

\* C34: each turn is produced by the Turn Runner bound to the participant
\* whose turn it is.  For every participant list the constructor accepts,
\* the turn in progress of participants[i] runs in the Turn Runner bound to
\* participants[i]: the outbound list starts with that participant's system
\* prompts.
C34_Original ==
    (mode = "run" /\ pc \in {"send", "resend", "exec"})
        => /\ runner = participants[current_participant_idx + 1]
           /\ \A i \in 1..Len(participants[current_participant_idx + 1]._system_prompts) :
                 messages[i] =
                     ChatMessage("system",
                         TextContent(participants[current_participant_idx + 1]._system_prompts[i]))

\* C35: tool calls without an executor.  When no tool executor is configured
\* and the step limit is at least 1, a response carrying tool calls that all
\* have a call_id ends the turn with an error: no tool has run, the adapter
\* has been called that once, and a run has appended no turn for it.
C35_NoExecutorAborts ==
    (/\ mode \in {"run", "turn"}
     /\ tool_executor = None
     /\ max_tool_steps >= 1
     /\ response.tool_calls # <<>>
     /\ \A i \in 1..Len(response.tool_calls) : response.tool_calls[i].call_id # None)
        => /\ pc = "raised"
           /\ exc \notin {None, "ValueError:call_id", "AdapterError", "ToolError"}
           /\ tool_execs = 0
           /\ exec_log = <<>>
           /\ adapter_calls = 1
           /\ mode = "run" => Appended = turns_started - 1

C35_Witness ==
    /\ mode = "run"
    /\ tool_executor = None
    /\ pc = "raised"
    /\ response.tool_calls = <<callA, callB>>
    /\ turns_started = 2
    /\ Appended = 1
    /\ adapter_calls = 1

\* C36: splitting a run composes.  With adapters that answer by the messages
\* they are sent, a run of a turns from participants[s], continued for b
\* turns on its transcript from participants[(s + a) % N] with the message
\* of its last turn, leaves the transcript (roles, messages and tool
\* invocations) that one run of a + b turns from participants[s] returns.
C36_SplitComposes ==
    /\ (split.phase = "second" /\ pc = "returned")
            => /\ Len(transcript) = split.a + max_turns
               /\ init_turns = SubSeq(transcript, 1, split.a)
    /\ (split.phase = "whole" /\ pc = "returned")
            => /\ transcript = split.result
               /\ Len(transcript) = max_turns

C36_Witness ==
    /\ split.phase = "whole"
    /\ pc = "returned"
    /\ split.s = 1
    /\ split.a = 1
    /\ Len(participants) = 3
    /\ Len(split.result) = 3
    /\ transcript = split.result
    /\ transcript[1].role = "Bob"
    /\ transcript[3].role = "Alice"
    /\ transcript[1].message = py_str(DictContent("hi"))
    /\ transcript[2].message = "DONE"
    /\ transcript[3].message \in StartingMessages

\* C37: the rotation index, the turn counter and the current message are
\* local to a run.  However the earlier run on the same ConversationRunner
\* ended, a later run without starting_participant starts at participants[0]
\* with a turn count of 0 and hands its own starting message to its first
\* turn; its counter and index follow its own turns only; and without
\* initial_transcript its transcript starts empty and holds the turns of
\* this run only, none of the earlier run.
C37_RunLocals ==
    split.phase = "later"
        => /\ (pc = "loop" /\ turns_started = 0)
                => /\ current_participant_idx = 0
                   /\ turn_count = 0
                   /\ current_message = split.sm
                   /\ transcript = init_turns
           /\ (pc \in {"send", "resend"} /\ turns_started = 1)
                => /\ runner.name = participants[1].name
                   /\ arg_user_message = split.sm
                   /\ messages[Len(messages)] = ChatMessage("user", TextContent(split.sm))
           /\ turn_count = Appended
           /\ pc = "loop" => current_participant_idx = Appended % Len(participants)
           /\ ~split.given
                => /\ init_turns = <<>>
                   /\ Len(transcript) = Appended
                   /\ \A i \in 1..Len(transcript) :
                          transcript[i].role = participants[((i - 1) % Len(participants)) + 1].name
           /\ split.given => init_turns = split.result

C37_Witness ==
    /\ split.phase = "later"
    /\ split.ended = "exception"
    /\ ~split.given
    /\ Len(split.result) = 1
    /\ split.sm = "Topic 2"
    /\ pc = "returned"
    /\ Len(participants) = 3
    /\ Len(transcript) = 2
    /\ transcript[1].role = "Alice"
    /\ max_turns = 2

\* the script of the adapter has no call without call_id
ScriptHasIds ==
    \A i \in 1..Len(split.script) :
        \A j \in 1..Len(split.script[i].tool_calls) :
            split.script[i].tool_calls[j].call_id # None

\* C38: the legacy engine and the Turn Runner agree.  On the same adapter
\* responses, all with call_ids, the same history, message, executor and
\* step limit, AssistantEngine.run_turn ends as TurnRunner.run_turn did
\* (returned, or failed for want of an executor), after as many adapter
\* calls and the same executor calls in the same order; when both return,
\* the message and raw are the same, the engine returns the tool calls of
\* the last response and the Turn Runner the calls it executed, if any.
C38_LegacyAgrees ==
    (/\ split.phase = "legacy"
     /\ pc \in {"legacy_returned", "raised"}
     /\ ScriptHasIds)
        => /\ (pc = "legacy_returned") = (split.noted.ended = "turn_returned")
           /\ adapter_calls = split.noted.calls
           /\ exec_log = split.noted.log
           /\ pc = "legacy_returned"
                => /\ result.message = split.noted.result.message
                   /\ result.raw = split.noted.result.raw
                   /\ result.tool_calls = response.tool_calls
                   /\ split.noted.result.tool_calls =
                          IF exec_log # <<>> THEN exec_log ELSE response.tool_calls

C38_Witness ==
    /\ split.phase = "legacy"
    /\ pc = "legacy_returned"
    /\ ScriptHasIds
    /\ max_tool_steps = 2
    /\ adapter_calls = 3
    /\ Len(exec_log) = 4
    /\ Len(result.tool_calls) = 2
    /\ Len(split.noted.result.tool_calls) = 4

\* the last assistant message describing tool calls before message m
PayloadBefore(m) ==
    CHOOSE p \in 1..(m - 1) :
        /\ messages[p].content.kind = "tool_calls"
        /\ \A q \in (p + 1)..(m - 1) : messages[q].content.kind # "tool_calls"

\* C39: in the legacy engine, the tool-result message of every call echoed
\* to the provider carries as tool_call_id the id written for that call in
\* the assistant tool-call message before it, also for a call without
\* call_id.
C39_Original ==
    mode = "legacy"
        => \A m \in 1..Len(messages) :
               messages[m].role = "tool"
                   => messages[m].content.tool_call_id =
                          messages[PayloadBefore(m)].content.tool_calls[m - PayloadBefore(m)].id

=============================================================================
